---- MODULE Spec2Model ----
(***************************************************************************)
(* videoshare: the REST router (server/routes.ts, src/unnamed/part_000)    *)
(* over the in-memory entity store (server/storage.ts and shared/schema.ts,*)
(* src/unnamed/part_001).                                                  *)
(*                                                                         *)
(* Spec   : the router's handlers acting on the store, the sessions and    *)
(*          the uploads directory.  Every handler awaits only promises of  *)
(*          MemStorage, which are already resolved, so its continuations   *)
(*          run as microtasks before the next request's callback: one      *)
(*          handler is one step.                                           *)
(* SpecStream, SpecStreams : GET /stream/:id, one request and several in   *)
(*          flight.                                                        *)
(* SpecVideos, SpecUsers, SpecStore, SpecListing : the methods of          *)
(*          MemStorage called directly.                                    *)
(* SpecRace : PUT, DELETE and views handlers interleaved at their awaits.  *)
(***************************************************************************)
EXTENDS Integers, Sequences, FiniteSets, TLC

VARIABLES
    users,        \* MemStorage.users : id -> User
    nextUserId,   \* MemStorage.nextUserId
    videos,       \* MemStorage.videos : id -> Video
    nextVideoId,  \* MemStorage.nextVideoId
    categories,   \* MemStorage.categories : id -> Category
    nextCategoryId, \* MemStorage.nextCategoryId
    session,      \* express-session: session id -> req.session.user
    disk,         \* the files of uploadsDir: path -> content (a sequence of bytes)
    nextFile,     \* the uuidv4 of the next stored upload (never repeats)
    clock,        \* the server's clock, read by new Date()
    requests,     \* the requests in flight: slot -> the handler's locals and position
    res           \* the request handled last and the response it got

vars == <<users, nextUserId, videos, nextVideoId, categories, nextCategoryId,
          session, disk, nextFile, clock, requests, res>>

----------------------------------------------------------------------------
(* Bounds of the model *)

MaxUsers == 2
MaxVideos == 2
MaxViews == 2
\* as many stored uploads as records
MaxFiles == MaxVideos
\* the clock ticks read between one new Date() and the next
Ticks == {1}

(* Values the requests draw their inputs from *)

Sessions == {"s1"}
Usernames == {"admin", "alice"}
Passwords == {"admin123", "hunter22"}
VideoIds == 1..(MaxVideos + 1)

\* the requests that can be in flight at once, and a slot with none
MaxRequests == 2
Slots == 1..MaxRequests
Idle == [op |-> "idle"]

\* a null column / an undefined property
Null == "null"
\* filePath of a record that has no file
NoPath == 0

\* the number that is not one: what parseInt returns for text that starts
\* with no digit, and the time of an invalid Date
NaN == -1000000
\* an uploadDate that new Date() cannot read, such as the text "x"
InvalidDate == -1

\* req.session.user of a session nobody logged in on
NoUser == [id |-> 0, username |-> "", password |-> "", isAdmin |-> FALSE]

----------------------------------------------------------------------------
(* Strings the code inspects character by character *)

video_mp4 == <<"v","i","d","e","o","/","m","p","4">>
image_png == <<"i","m","a","g","e","/","p","n","g">>
text_video == <<"t","e","x","t","/","v","i","d","e","o","/">>
Mimes == {video_mp4, image_png, text_video}

\* String.prototype.startsWith
startsWith(s, p) == Len(s) >= Len(p) /\ SubSeq(s, 1, Len(p)) = p

\* String.prototype.indexOf: the first position p (from 1) where pat occurs in
\* str, or 0
indexOf(str, pat) ==
    LET hits == {p \in 1..(Len(str) - Len(pat) + 1) : SubSeq(str, p, p + Len(pat) - 1) = pat}
    IN  IF hits = {} THEN 0 ELSE CHOOSE p \in hits : \A q \in hits : p <= q

\* { ...a, ...b }
Spread(a, b) == [k \in (DOMAIN a) \cup (DOMAIN b) |-> IF k \in DOMAIN b THEN b[k] ELSE a[k]]

----------------------------------------------------------------------------
(* MemStorage *)

getUser(id) == IF id \in DOMAIN users THEN users[id] ELSE NoUser

\* Array.from(users.values()).find: the first match in insertion order, which
\* is the order of the ids
getUserByUsername(username) ==
    LET m == {i \in DOMAIN users : users[i].username = username}
    IN  IF m = {} THEN NoUser
        ELSE users[CHOOSE i \in m : \A j \in m : i <= j]

createUser(insertUser) ==
    (nextUserId :> Spread(insertUser, [id |-> nextUserId])) @@ users

\* updateUserPassword that gives every user the new password
updateUserPasswordEveryUser(id, newPassword) ==
    [i \in DOMAIN users |-> Spread(users[i], [password |-> newPassword])]

\* updateUserPassword that returns the changed user without storing it
updateUserPasswordNotStored(id, newPassword) == users

updateUserPassword(id, newPassword) ==
    IF id \notin DOMAIN users THEN users
    ELSE [users EXCEPT ![id] = Spread(users[id], [password |-> newPassword])]

getAllUsers == [i \in DOMAIN users |-> users[i]]

\* what Map.get returns for a key that is not there
Undefined == [id |-> 0]

getVideo(id) == IF id \in DOMAIN videos THEN videos[id] ELSE Undefined

getAllCategories == [i \in DOMAIN categories |-> categories[i]]

createCategory(insertCategory) ==
    (nextCategoryId :> Spread(insertCategory, [id |-> nextCategoryId])) @@ categories

createVideo(insertVideo, now) ==
    (nextVideoId :> Spread(insertVideo, [id |-> nextVideoId, views |-> 0, uploadDate |-> now]))
        @@ videos

\* updateVideo that stores the updates under an id that is not there
updateVideoUpsert(id, updates) ==
    IF id \notin DOMAIN videos THEN (id :> Spread(updates, [id |-> id])) @@ videos
    ELSE [videos EXCEPT ![id] = Spread(videos[id], updates)]

updateVideo(id, updates) ==
    IF id \notin DOMAIN videos THEN videos
    ELSE [videos EXCEPT ![id] = Spread(videos[id], updates)]

\* deleteVideo that leaves the map as it is
deleteVideoKept(id) == videos

deleteVideo(id) == [i \in (DOMAIN videos) \ {id} |-> videos[i]]

\* incrementViews writing the record back without the increment
incrementViewsLost(id) ==
    IF id \notin DOMAIN videos THEN videos
    ELSE [videos EXCEPT ![id] = Spread(videos[id], [views |-> videos[id].views])]

incrementViews(id) ==
    IF id \notin DOMAIN videos THEN videos
    ELSE [videos EXCEPT ![id] = Spread(videos[id], [views |-> videos[id].views + 1])]

\* new Date(uploadDate).getTime(): the milliseconds, or NaN for a value that
\* is no date
getTime(uploadDate) == IF uploadDate = InvalidDate THEN NaN ELSE uploadDate

\* (a, b) => new Date(b.uploadDate).getTime() - new Date(a.uploadDate).getTime(),
\* as Array.prototype.sort reads it: a NaN counts as 0
compareDates(a, b) ==
    LET ta == getTime(a.uploadDate)
        tb == getTime(b.uploadDate)
    IN  IF ta = NaN \/ tb = NaN THEN 0 ELSE tb - ta

\* Array.from(map.values()) of the keys: insertion order, which is the order
\* of the ids (set() on a key that is there keeps its place)
RECURSIVE valuesOf(_)
valuesOf(keys) ==
    IF keys = {} THEN <<>>
    ELSE LET k == CHOOSE i \in keys : \A j \in keys : i <= j
         IN  <<videos[k]>> \o valuesOf(keys \ {k})

(* Array.prototype.sort as Node runs it on an array shorter than 64: the    *)
(* run the array starts with is taken as it is (reversed when strictly      *)
(* descending), the rest is inserted by binary search.  With a consistent   *)
(* comparator this is the stable sort the language requires.                *)

\* the length of the run arr starts with, r of it known
RECURSIVE runEnd(_, _, _)
runEnd(arr, descending, r) ==
    IF r = Len(arr) THEN r
    ELSE LET order == compareDates(arr[r + 1], arr[r])
         IN  IF (descending /\ order >= 0) \/ (~descending /\ order < 0) THEN r
             ELSE runEnd(arr, descending, r + 1)

reverseRange(arr, r) == [i \in 1..Len(arr) |-> IF i <= r THEN arr[r + 1 - i] ELSE arr[i]]

\* where pivot goes among arr[left] .. arr[right - 1]
RECURSIVE binarySearch(_, _, _, _)
binarySearch(arr, pivot, left, right) ==
    IF left >= right THEN left
    ELSE LET mid == left + ((right - left) \div 2)
         IN  IF compareDates(pivot, arr[mid]) < 0 THEN binarySearch(arr, pivot, left, mid)
             ELSE binarySearch(arr, pivot, mid + 1, right)

\* arr[1] .. arr[start - 1] are in order: insert the others one by one
RECURSIVE binaryInsertionSort(_, _)
binaryInsertionSort(arr, start) ==
    IF start > Len(arr) THEN arr
    ELSE LET pivot == arr[start]
             left == binarySearch(arr, pivot, 1, start)
             moved == [i \in 1..Len(arr) |->
                          IF i < left THEN arr[i]
                          ELSE IF i = left THEN pivot
                          ELSE IF i <= start THEN arr[i - 1]
                          ELSE arr[i]]
         IN  binaryInsertionSort(moved, start + 1)

sort(arr) ==
    IF Len(arr) < 2 THEN arr
    ELSE LET descending == compareDates(arr[2], arr[1]) < 0
             r == runEnd(arr, descending, 2)
         IN  binaryInsertionSort(IF descending THEN reverseRange(arr, r) ELSE arr, r + 1)

\* the videos of the keys, sorted by uploadDate descending
sortByDate(keys) == sort(valuesOf(keys))

getAllVideos == sortByDate(DOMAIN videos)

\* getVideosByCategory without the branch for "All"
getVideosByCategoryNoAll(category) ==
    sortByDate({i \in DOMAIN videos : videos[i].category = category})

getVideosByCategory(category) ==
    IF category = "All" THEN getAllVideos
    ELSE sortByDate({i \in DOMAIN videos : videos[i].category = category})

\* the characters of the texts that titles, descriptions and queries are
\* drawn from
chars(str) ==
    CASE str = "" -> <<>>
      [] str = "a" -> <<"a">>
      [] str = "b" -> <<"b">>
      [] str = "d" -> <<"d">>
      [] str = "B" -> <<"B">>
      [] str = "Ab" -> <<"A", "b">>
      [] str = "AB" -> <<"A", "B">>
      [] str = "ba" -> <<"b", "a">>
      [] str = "aB" -> <<"a", "B">>

\* String.prototype.toLowerCase, on the letters in use
toLowerCase(str) ==
    [i \in 1..Len(str) |->
        CASE str[i] = "A" -> "a" [] str[i] = "B" -> "b" [] OTHER -> str[i]]

\* String.prototype.includes
includes(str, pat) == indexOf(str, pat) # 0

\* searchVideos comparing with the query as given, not lowered
searchVideosQueryAsGiven(query) ==
    sortByDate({i \in DOMAIN videos :
        \/ includes(toLowerCase(chars(videos[i].title)), chars(query))
        \/ /\ videos[i].description \notin {Null, ""}
           /\ includes(toLowerCase(chars(videos[i].description)), chars(query))})

searchVideos(query) ==
    LET lowerQuery == toLowerCase(chars(query))
    IN  sortByDate({i \in DOMAIN videos :
            \/ includes(toLowerCase(chars(videos[i].title)), lowerQuery)
            \/ /\ videos[i].description \notin {Null, ""}
               /\ includes(toLowerCase(chars(videos[i].description)), lowerQuery)})

----------------------------------------------------------------------------
(* shared/schema.ts: the request schemas *)

loginSchema(body) == Len(body.username) >= 3 /\ Len(body.password) >= 6

passwordChangeSchema(body) ==
    /\ Len(body.currentPassword) >= 1
    /\ Len(body.newPassword) >= 6
    /\ Len(body.confirmPassword) >= 6
    /\ body.newPassword = body.confirmPassword

\* the columns of insertVideoSchema the handlers read (thumbnailPath and
\* duration, which no handler reads, are left out)
InsertVideoKeys ==
    {"title", "description", "fileName", "filePath", "embedUrl", "isEmbedded",
     "category", "uploaderId"}

\* insertVideoSchema.parse succeeds: the notNull columns are there
insertVideoSchema(input) ==
    /\ "title" \in DOMAIN input /\ input.title # Null
    /\ "uploaderId" \in DOMAIN input

\* what insertVideoSchema.parse returns: the schema's keys only (zod strips
\* the others); a key that is absent reads as Null
insertVideoParsed(input) ==
    [k \in InsertVideoKeys |-> IF k \in DOMAIN input THEN input[k] ELSE Null]

----------------------------------------------------------------------------
(* server/routes.ts: middleware *)

\* fileFilter with includes('video/') for startsWith('video/')
fileFilterIncludes(mimetype) == indexOf(mimetype, <<"v","i","d","e","o","/">>) # 0

fileFilter(mimetype) == startsWith(mimetype, <<"v","i","d","e","o","/">>)

\* TRUE when the middleware calls next()
requireAuth(s) == session[s] # NoUser

\* requireAdmin that only asks for a logged-in user
requireAdminAnyUser(s) == session[s] # NoUser

requireAdmin(s) == ~(session[s] = NoUser \/ ~session[s].isAdmin)

\* the owner check with === for !==
updateRefusedInverted(user, video) == ~user.isAdmin /\ video.uploaderId = user.id

\* the owner-or-admin check of PUT /videos/:id: TRUE when the request is refused
updateRefused(user, video) == ~user.isAdmin /\ video.uploaderId # user.id

\* the owner check with === for !==
deleteRefusedInverted(user, video) == ~user.isAdmin /\ video.uploaderId = user.id

\* the owner-or-admin check of DELETE /videos/:id: TRUE when the request is refused
deleteRefused(user, video) == ~user.isAdmin /\ video.uploaderId # user.id

\* uploadInput with videoData spread last, over the server's fields
uploadInputClientWins(videoData, file, user) ==
    Spread([fileName |-> file.originalname, filePath |-> file.path, uploaderId |-> user.id],
           videoData)

\* the object POST /videos hands to insertVideoSchema.parse
uploadInput(videoData, file, user) ==
    Spread(videoData, [fileName |-> file.originalname, filePath |-> file.path,
                       uploaderId |-> user.id])

NoBody == <<>>

\* res.json(array)
Items(array) == [items |-> array]

\* res.json({ message })
Message(text) == [message |-> text]

\* res: the route of the request handled last, the status and the body sent
Respond(op, s, id, status, body) ==
    res' = [op |-> op, status |-> status, body |-> body]

userSummary(user) == [id |-> user.id, username |-> user.username, isAdmin |-> user.isAdmin]

storeVars == <<users, nextUserId, videos, nextVideoId, categories, nextCategoryId>>

----------------------------------------------------------------------------
(* server/routes.ts: the handlers.  One action is one request, from its   *)
(* middleware to its response.                                             *)

\* the names the constructor creates a category for
DEFAULT_CATEGORIES ==
    <<"All", "Travel", "Sports", "Education", "Technology", "Entertainment", "Music">>

\* the constructor's admin user
AdminInsert == [username |-> "admin", password |-> "admin123", isAdmin |-> TRUE]

\* the file part of a multipart upload; NoFile: the body carries none
FileParts == [originalname : {"clip.mp4"}, mimetype : Mimes]
NoFile == [originalname |-> "", mimetype |-> <<>>]

\* req.file: the part, with the path multer stored it at
UploadedFile(part, path) == Spread(part, [path |-> path])

\* the bytes an upload carries
UploadBytes == <<7, 8, 9>>

\* req.body.videoData: text that JSON.parse refuses, or the object it yields
VideoDatas ==
    { [json |-> FALSE, fields |-> <<>>],
      [json |-> TRUE,  fields |-> [description |-> "d"]],
      [json |-> TRUE,  fields |-> [title |-> "a"]],
      [json |-> TRUE,  fields |-> [title |-> "a", uploaderId |-> 1, id |-> 9, views |-> 5]] }

\* req.body of PUT /videos/:id: any JSON object; filePath 1 is the path of
\* the first stored upload
Patches ==
    { [title |-> "b"], [views |-> 0], [uploaderId |-> 1], [filePath |-> 1] }

\* storage.createUser: the constructor calls it; no route does
CreateUser(insertUser) ==
    /\ nextUserId <= MaxUsers
    /\ users' = createUser(insertUser)
    /\ nextUserId' = nextUserId + 1
    /\ Respond("createUser", "-", nextUserId, 0, users'[nextUserId])
    /\ UNCHANGED <<requests, categories, nextCategoryId, videos, nextVideoId,
                   session, disk, nextFile, clock>>

\* the check of login that forgets the password
loginRefusedUnknownOnly(user, password) == user = NoUser

\* !user || user.password !== password: TRUE when the login is refused
loginRefused(user, password) == user = NoUser \/ user.password # password

\* POST /auth/login
Login(s, body) ==
    /\ IF ~loginSchema(body)
       THEN /\ Respond("login", s, 0, 400, Message("Validation error"))
            /\ UNCHANGED session
       ELSE LET user == getUserByUsername(body.username)
            IN  IF loginRefused(user, body.password)
                THEN /\ Respond("login", s, 0, 401, Message("Invalid username or password"))
                     /\ UNCHANGED session
                ELSE /\ session' = [session EXCEPT ![s] = user]
                     /\ Respond("login", s, 0, 200, userSummary(user))
    /\ UNCHANGED <<requests, storeVars, disk, nextFile, clock>>

\* the status POST /auth/login answers to body in the current store
loginStatus(body) ==
    IF ~loginSchema(body) THEN 400
    ELSE IF loginRefused(getUserByUsername(body.username), body.password) THEN 401
    ELSE 200

\* POST /auth/logout
Logout(s) ==
    /\ session' = [session EXCEPT ![s] = NoUser]
    /\ Respond("logout", s, 0, 200, Message("Logged out successfully"))
    /\ UNCHANGED <<requests, storeVars, disk, nextFile, clock>>

\* cookie: { maxAge: 24 hours }: the session store drops a session whose
\* cookie has expired, and the next request of that session finds no user
Expire(s) ==
    /\ session[s] # NoUser
    /\ session' = [session EXCEPT ![s] = NoUser]
    /\ UNCHANGED <<requests, storeVars, disk, nextFile, clock, res>>

\* GET /auth/me
Me(s) ==
    /\ IF session[s] = NoUser
       THEN Respond("me", s, 0, 401, [authenticated |-> FALSE])
       ELSE Respond("me", s, 0, 200,
                    [authenticated |-> TRUE, user |-> userSummary(session[s])])
    /\ UNCHANGED <<requests, storeVars, session, disk, nextFile, clock>>

\* the check of the current password with === for !==
currentPasswordIncorrectInverted(user, currentPassword) == user.password = currentPassword

\* the check of the current password: TRUE when the request is refused
currentPasswordIncorrect(user, currentPassword) == user.password # currentPassword

\* POST /auth/change-password
ChangePassword(s, body) ==
    /\ IF ~requireAuth(s)
       THEN /\ Respond("change-password", s, 0, 401, Message("Unauthorized"))
            /\ UNCHANGED <<users, session>>
       ELSE IF ~passwordChangeSchema(body)
       THEN /\ Respond("change-password", s, 0, 400, Message("Validation error"))
            /\ UNCHANGED <<users, session>>
       ELSE LET userId == session[s].id
                user == getUser(userId)
            IN  IF user = NoUser
                THEN /\ Respond("change-password", s, 0, 404, Message("User not found"))
                     /\ UNCHANGED <<users, session>>
                ELSE IF currentPasswordIncorrect(user, body.currentPassword)
                THEN /\ Respond("change-password", s, 0, 400,
                        Message("Current password is incorrect"))
                     /\ UNCHANGED <<users, session>>
                ELSE /\ users' = updateUserPassword(userId, body.newPassword)
                     /\ session' = [session EXCEPT ![s] = users'[userId]]
                     /\ Respond("change-password", s, 0, 200,
                             Message("Password updated successfully"))
    /\ UNCHANGED <<requests, categories, nextCategoryId, nextUserId, videos,
                   nextVideoId, disk, nextFile, clock>>

\* POST /videos: requireAuth, upload.single('file'), then the handler.
Upload(s, part, videoData, now) ==
    /\ IF ~requireAuth(s)
       THEN /\ Respond("upload", s, 0, 401, Message("Unauthorized"))
            /\ UNCHANGED <<videos, nextVideoId, disk, nextFile, clock>>
       ELSE IF part # NoFile /\ ~fileFilter(part.mimetype)
       THEN \* cb(new Error(...)): multer stores nothing and passes the error
            \* to next(); the handler does not run
            /\ Respond("upload", s, 0, 500, Message("Only video files are allowed"))
            /\ UNCHANGED <<videos, nextVideoId, disk, nextFile, clock>>
       ELSE IF part = NoFile
       THEN /\ Respond("upload", s, 0, 400, Message("No video file uploaded"))
            /\ UNCHANGED <<videos, nextVideoId, disk, nextFile, clock>>
       ELSE \* multer has written the file before the handler runs
            /\ nextFile <= MaxFiles
            /\ disk' = (nextFile :> UploadBytes) @@ disk
            /\ nextFile' = nextFile + 1
            /\ IF ~videoData.json
               THEN \* JSON.parse throws a SyntaxError, which is no ZodError
                    /\ Respond("upload", s, 0, 500, Message("Error uploading video"))
                    /\ UNCHANGED <<videos, nextVideoId, clock>>
               ELSE LET input == uploadInput(videoData.fields, UploadedFile(part, nextFile),
                                             session[s])
                    IN  IF ~insertVideoSchema(input)
                        THEN /\ Respond("upload", s, 0, 400, Message("Validation error"))
                             /\ UNCHANGED <<videos, nextVideoId, clock>>
                        ELSE /\ nextVideoId <= MaxVideos
                             /\ videos' = createVideo(insertVideoParsed(input), now)
                             /\ nextVideoId' = nextVideoId + 1
                             /\ clock' = now
                             /\ Respond("upload", s, nextVideoId, 201,
                                        videos'[nextVideoId])
    /\ UNCHANGED <<requests, categories, nextCategoryId, users, nextUserId, session>>

\* PUT /videos/:id
UpdateVideo(s, id, body) ==
    /\ IF ~requireAuth(s)
       THEN /\ Respond("update", s, id, 401, Message("Unauthorized"))
            /\ UNCHANGED videos
       ELSE IF id \notin DOMAIN videos
       THEN /\ Respond("update", s, id, 404, Message("Video not found"))
            /\ UNCHANGED videos
       ELSE IF updateRefused(session[s], videos[id])
       THEN /\ Respond("update", s, id, 403, Message("Not authorized to update this video"))
            /\ UNCHANGED videos
       ELSE /\ videos' = updateVideo(id, body)
            /\ Respond("update", s, id, 200, videos'[id])
    /\ UNCHANGED <<requests, categories, nextCategoryId, users, nextUserId,
                   nextVideoId, session, disk, nextFile, clock>>

\* DELETE /videos/:id.  unlinkFails: fs.unlinkSync throws on the file.
DeleteVideo(s, id, unlinkFails) ==
    /\ IF ~requireAuth(s)
       THEN /\ Respond("delete", s, id, 401, Message("Unauthorized"))
            /\ UNCHANGED <<videos, disk>>
       ELSE IF id \notin DOMAIN videos
       THEN /\ Respond("delete", s, id, 404, Message("Video not found"))
            /\ UNCHANGED <<videos, disk>>
       ELSE IF deleteRefused(session[s], videos[id])
       THEN /\ Respond("delete", s, id, 403, Message("Not authorized to delete this video"))
            /\ UNCHANGED <<videos, disk>>
       ELSE /\ videos' = deleteVideo(id)
            /\ IF videos[id].filePath \notin DOMAIN disk
               THEN /\ UNCHANGED disk
                    /\ Respond("delete", s, id, 200, Message("Video deleted successfully"))
               ELSE IF unlinkFails
               THEN /\ UNCHANGED disk
                    /\ Respond("delete", s, id, 500, Message("Error deleting video"))
               ELSE /\ disk' = [p \in (DOMAIN disk) \ {videos[id].filePath} |-> disk[p]]
                    /\ Respond("delete", s, id, 200, Message("Video deleted successfully"))
    /\ UNCHANGED <<requests, categories, nextCategoryId, users, nextUserId,
                   nextVideoId, session, nextFile, clock>>

\* POST /videos/:id/views
Views(id) ==
    /\ id \in DOMAIN videos => videos[id].views < MaxViews
    /\ videos' = incrementViews(id)
    /\ IF id \notin DOMAIN videos
       THEN Respond("views", "-", id, 404, Message("Video not found"))
       ELSE Respond("views", "-", id, 200, [views |-> videos'[id].views])
    /\ UNCHANGED <<requests, categories, nextCategoryId, users, nextUserId,
                   nextVideoId, session, disk, nextFile, clock>>

\* GET /admin/videos
AdminVideos(s) ==
    /\ IF ~requireAdmin(s)
       THEN Respond("admin-videos", s, 0, 403, Message("Forbidden - Admin access required"))
       ELSE Respond("admin-videos", s, 0, 200, Items(getAllVideos))
    /\ UNCHANGED <<requests, storeVars, session, disk, nextFile, clock>>

\* GET /admin/users
AdminUsers(s) ==
    /\ IF ~requireAdmin(s)
       THEN Respond("admin-users", s, 0, 403, Message("Forbidden - Admin access required"))
       ELSE Respond("admin-users", s, 0, 200, Items(getAllUsers))
    /\ UNCHANGED <<requests, storeVars, session, disk, nextFile, clock>>

\* z.string().url(): a scheme, "://" and something after it
isUrl(str) ==
    LET p == indexOf(str, <<":", "/", "/">>)
    IN  p > 1 /\ Len(str) > p + 2

\* embedVideoSchema, which the client's embed form validates with
embedVideoSchema(body) ==
    /\ Len(body.title) >= 1
    /\ isUrl(body.embedUrl)
    /\ body.isEmbedded = TRUE

https_x == <<"h", "t", "t", "p", "s", ":", "/", "/", "x">>

\* the JSON body the client posts to /videos/embed
EmbedBodies ==
    [title : {"a"}, embedUrl : {https_x, <<"x">>}, isEmbedded : {TRUE}, uploaderId : {1}]

\* POST /videos/embed, the request of the client's embedVideoMutation.  The
\* router's POST routes are /auth/login, /auth/logout, /auth/change-password,
\* /videos and /videos/:id/views: none matches, so no handler of the router
\* runs and the store, the sessions and the disk stay as they are.  The
\* answer is that of whatever follows the router in the application: 404 from
\* express's final handler, or 200 from a catch-all that serves the client.
Embed(s, body, status) ==
    /\ Respond("embed", s, 0, status, NoBody)
    /\ UNCHANGED <<requests, storeVars, session, disk, nextFile, clock>>

----------------------------------------------------------------------------
(* GET /stream/:id *)

Digits == <<"0", "1", "2", "3", "4", "5", "6", "7", "8", "9">>
isDigit(c) == \E d \in 1..10 : Digits[d] = c
digitValue(c) == (CHOOSE d \in 1..10 : Digits[d] = c) - 1
isWhite(c) == c = " "

\* the decimal numeral of n >= 0
RECURSIVE toString(_)
toString(n) == IF n < 10 THEN <<Digits[n + 1]>> ELSE toString(n \div 10) \o <<Digits[(n % 10) + 1]>>

\* str.replace(/bytes=/, ""): the first occurrence is removed
removeBytesEq(str) ==
    LET pat == <<"b", "y", "t", "e", "s", "=">>
        p == indexOf(str, pat)
    IN  IF p = 0 THEN str
        ELSE SubSeq(str, 1, p - 1) \o SubSeq(str, p + Len(pat), Len(str))

\* str.split("-")
RECURSIVE split(_)
split(str) ==
    LET p == indexOf(str, <<"-">>)
    IN  IF p = 0 THEN <<str>>
        ELSE <<SubSeq(str, 1, p - 1)>> \o split(SubSeq(str, p + 1, Len(str)))

\* the value of the digits str starts with, after acc
RECURSIVE digitsValue(_, _)
digitsValue(str, acc) ==
    IF str = <<>> \/ ~isDigit(Head(str)) THEN acc
    ELSE digitsValue(Tail(str), acc * 10 + digitValue(Head(str)))

\* parseInt(str, 10): leading white space and one sign are skipped, the digits
\* that follow are read, the rest is ignored
RECURSIVE parseInt(_)
parseInt(str) ==
    IF str = <<>> THEN NaN
    ELSE IF isWhite(Head(str)) THEN parseInt(Tail(str))
    ELSE LET body == IF Head(str) \in {"+", "-"} THEN Tail(str) ELSE str
             v == IF body = <<>> \/ ~isDigit(Head(body)) THEN NaN ELSE digitsValue(body, 0)
         IN  IF v # NaN /\ Head(str) = "-" THEN 0 - v ELSE v

\* const start = parseInt(parts[0], 10)
rangeStart(range) == parseInt(split(removeBytesEq(range))[1])

\* rangeEnd with fileSize for fileSize - 1
rangeEndPastEof(range, fileSize) ==
    LET parts == split(removeBytesEq(range))
    IN  IF Len(parts) >= 2 /\ parts[2] # <<>> THEN parseInt(parts[2]) ELSE fileSize

\* const end = parts[1] ? parseInt(parts[1], 10) : fileSize - 1
rangeEnd(range, fileSize) ==
    LET parts == split(removeBytesEq(range))
    IN  IF Len(parts) >= 2 /\ parts[2] # <<>> THEN parseInt(parts[2]) ELSE fileSize - 1

\* const chunksize = (end - start) + 1
chunksize(start, end) == IF start = NaN \/ end = NaN THEN NaN ELSE (end - start) + 1

\* fs.createReadStream(path, { start, end }) throws (ERR_OUT_OF_RANGE) unless
\* start and end are integers with 0 <= start <= end
createReadStreamThrows(start, end) ==
    start = NaN \/ end = NaN \/ start < 0 \/ end < 0 \/ start > end

\* the bytes the stream opened with { start, end } delivers: those at the
\* offsets start..end that the file has
readStream(file, start, end) ==
    LET last == IF end < Len(file) - 1 THEN end ELSE Len(file) - 1
    IN  IF start > last THEN <<>> ELSE SubSeq(file, start + 1, last + 1)

\* the check that forgets fs.existsSync
streamNotFoundRecordOnly(id) == id \notin DOMAIN videos

\* !video || !fs.existsSync(video.filePath); existsSync answers false for a
\* path that is null
streamNotFound(id) == id \notin DOMAIN videos \/ videos[id].filePath \notin DOMAIN disk

\* fs.statSync(path) throws when there is no file at path
statSyncThrows(path) == path \notin DOMAIN disk

\* the test that takes every request for a range request
hasRangeAlways(range) == TRUE

\* if (range): the header is there and not empty
hasRange(range) == range # <<>>

\* what GET /stream/:id answers to (id, range) in the current store and
\* disk, with the request beside it.  range: req.headers.range; <<>> is the
\* header left out (or given empty).  body: what the read stream delivers.
streamAnswer(id, range) ==
    IF streamNotFound(id)
    THEN [op |-> "stream", status |-> 404, body |-> Message("Video not found"),
          id |-> id, range |-> range]
    ELSE IF statSyncThrows(videos[id].filePath)
    THEN [op |-> "stream", status |-> 500,
          body |-> Message("Error streaming video"), id |-> id, range |-> range]
    ELSE LET file == disk[videos[id].filePath]
             fileSize == Len(file)
         IN  IF hasRange(range)
             THEN LET start == rangeStart(range)
                      end == rangeEnd(range, fileSize)
                  IN  IF createReadStreamThrows(start, end)
                      THEN [op |-> "stream", status |-> 500,
                            body |-> Message("Error streaming video"),
                            id |-> id, range |-> range]
                      ELSE [op |-> "stream", status |-> 206,
                            contentRange |-> [start |-> start, end |-> end,
                                              size |-> fileSize],
                            contentLength |-> chunksize(start, end),
                            body |-> readStream(file, start, end),
                            id |-> id, range |-> range]
             ELSE [op |-> "stream", status |-> 200,
                   contentLength |-> fileSize,
                   body |-> file, id |-> id, range |-> range]

\* GET /stream/:id, from the request to the end of the response
Stream(id, range) ==
    /\ res' = streamAnswer(id, range)
    /\ UNCHANGED <<requests, storeVars, session, disk, nextFile, clock>>

----------------------------------------------------------------------------

LoginBodies == [username : Usernames \cup {"pw"}, password : Passwords \cup {"pw"}]

\* a new password too short, two that differ, or one given twice
PasswordBodies ==
    {b \in [currentPassword : Passwords \cup {""},
            newPassword : Passwords \cup {"pw"},
            confirmPassword : Passwords \cup {"pw"}] :
        b.newPassword = b.confirmPassword \/ b.confirmPassword = "hunter22"}

InsertUsers == [username : Usernames \ {"admin"}, password : {"hunter22"}, isAdmin : {FALSE}]

\* username: text("username").notNull().unique(): whoever registers a user
\* through the store gives a username that is not taken
RegisterUser(insertUser) ==
    /\ getUserByUsername(insertUser.username) = NoUser
    /\ CreateUser(insertUser)

\* the state after new MemStorage() and registerRoutes()
Init ==
    /\ users = (1 :> Spread(AdminInsert, [id |-> 1]))
    /\ nextUserId = 2
    /\ videos = <<>>
    /\ nextVideoId = 1
    /\ categories = [i \in 1..Len(DEFAULT_CATEGORIES) |->
                         [name |-> DEFAULT_CATEGORIES[i], id |-> i]]
    /\ nextCategoryId = Len(DEFAULT_CATEGORIES) + 1
    /\ session = [s \in Sessions |-> NoUser]
    /\ disk = <<>>
    /\ nextFile = 1
    /\ clock = 0
    /\ requests = [r \in Slots |-> Idle]
    /\ res = [op |-> "none", status |-> 0, body |-> NoBody]

Next ==
    \/ \E u \in InsertUsers : RegisterUser(u)
    \/ \E s \in Sessions, b \in LoginBodies : Login(s, b)
    \/ \E s \in Sessions : Logout(s)
    \/ \E s \in Sessions : Expire(s)
    \/ \E s \in Sessions : Me(s)
    \/ \E s \in Sessions, b \in PasswordBodies : ChangePassword(s, b)
    \/ \E s \in Sessions, part \in FileParts \cup {NoFile}, d \in VideoDatas,
          t \in Ticks : Upload(s, part, d, clock + t)
    \/ \E s \in Sessions, id \in VideoIds, b \in Patches : UpdateVideo(s, id, b)
    \/ \E s \in Sessions, id \in VideoIds, f \in BOOLEAN : DeleteVideo(s, id, f)
    \/ \E id \in VideoIds : Views(id)
    \/ \E s \in Sessions : AdminVideos(s)
    \/ \E s \in Sessions : AdminUsers(s)
    \/ \E s \in Sessions, b \in EmbedBodies, status \in {200, 404} : Embed(s, b, status)

Spec == Init /\ [][Next]_vars

----------------------------------------------------------------------------
(* SpecStream: GET /stream/:id on a store holding one record, over files   *)
(* of every size up to MaxFileSize and Range headers well and ill formed.  *)

MaxFileSize == 12

\* a file of n bytes
FileOf(n, seed) == [i \in 1..n |-> (seed + 7 * i) % 256]
StreamFiles == {FileOf(n, seed) : n \in 0..MaxFileSize, seed \in {0, 250}}

BytesEq == <<"b", "y", "t", "e", "s", "=">>
closedRange(a, b) == BytesEq \o toString(a) \o <<"-">> \o toString(b)
openRange(a) == BytesEq \o toString(a) \o <<"-">>

Offsets == 0..(MaxFileSize + 1)
IllFormedRanges ==
    { BytesEq, BytesEq \o <<"-", "5">>, BytesEq \o <<"a", "b", "c", "-">>,
      BytesEq \o <<"3", "-", "x">>, BytesEq \o <<" ", "3", "-", "4">>,
      BytesEq \o <<"+", "1", "-", "2">>, BytesEq \o <<"1", "-", "2", "-", "3">>,
      <<"5", "-", "7">>, <<"x">> \o BytesEq \o <<"1", "-", "2">>,
      BytesEq \o <<"2", "x", "-", "3">> }
Ranges ==
    {<<>>} \cup {closedRange(a, b) : a, b \in Offsets} \cup {openRange(a) : a \in Offsets}
        \cup IllFormedRanges

\* the record of an uploaded video whose file is stored at path
UploadedVideo(path) ==
    Spread(insertVideoParsed(uploadInput([title |-> "a"], UploadedFile([originalname |-> "clip.mp4", mimetype |-> video_mp4], path),
                                         AdminInsert @@ [id |-> 1])),
           [id |-> 1, views |-> 0, uploadDate |-> 1])

InitStream ==
    /\ users = (1 :> Spread(AdminInsert, [id |-> 1]))
    /\ nextUserId = 2
    /\ \/ videos = <<>> /\ nextVideoId = 1 /\ disk = <<>> /\ nextFile = 1
       \/ /\ videos \in {(1 :> UploadedVideo(1)), (1 :> Spread(UploadedVideo(1), [filePath |-> NoPath]))}
          /\ nextVideoId = 2
          /\ disk \in {<<>>} \cup {(1 :> f) : f \in StreamFiles}
          /\ nextFile = 2
    /\ categories = [i \in 1..Len(DEFAULT_CATEGORIES) |->
                         [name |-> DEFAULT_CATEGORIES[i], id |-> i]]
    /\ nextCategoryId = Len(DEFAULT_CATEGORIES) + 1
    /\ session = [s \in Sessions |-> NoUser]
    /\ clock = 1
    /\ requests = [r \in Slots |-> Idle]
    /\ res = [op |-> "none", status |-> 0, body |-> NoBody]

\* one request on each store
NextStream == res.op = "none" /\ \E id \in 1..2, range \in Ranges : Stream(id, range)

SpecStream == InitStream /\ [][NextStream]_vars

----------------------------------------------------------------------------
(* SpecVideos: calls on the video methods of MemStorage, on stores whose   *)
(* records differ in title, description, category and upload date.         *)

Titles == {"Ab", "B"}
Descriptions == {Null, "aB"}
Categories == {Null, "Music", "All"}
Queries == {"", "a", "AB", "b", "ba"}

\* new Date() may read the same millisecond in two calls
StoreTicks == {0, 1}

\* the InsertVideo values createVideo is called with
StoreInsertVideos ==
    {Spread(insertVideoParsed([title |-> t, uploaderId |-> 1]),
            [description |-> d, category |-> c]) :
        t \in Titles, d \in Descriptions, c \in Categories}

\* StoreCreateVideo taking the next id from the size of the map
StoreCreateVideoIdFromSize(insertVideo, now) ==
    /\ nextVideoId <= MaxVideos
    /\ videos' = createVideo(insertVideo, now)
    /\ nextVideoId' = Cardinality(DOMAIN videos') + 1
    /\ clock' = now
    /\ Respond("createVideo", "-", nextVideoId, 0, videos'[nextVideoId])
    /\ UNCHANGED <<requests, categories, nextCategoryId, users, nextUserId,
                   session, disk, nextFile>>

StoreCreateVideo(insertVideo, now) ==
    /\ nextVideoId <= MaxVideos
    /\ videos' = createVideo(insertVideo, now)
    /\ nextVideoId' = nextVideoId + 1
    /\ clock' = now
    /\ Respond("createVideo", "-", nextVideoId, 0, videos'[nextVideoId])
    /\ UNCHANGED <<requests, categories, nextCategoryId, users, nextUserId,
                   session, disk, nextFile>>

StoreDeleteVideo(id) ==
    /\ videos' = deleteVideo(id)
    /\ Respond("deleteVideo", "-", id, 0, [deleted |-> id \in DOMAIN videos])
    /\ UNCHANGED <<requests, categories, nextCategoryId, users, nextUserId,
                   nextVideoId, session, disk, nextFile, clock>>

\* res keeps the argument of the call beside the array it returned
GetAllVideos ==
    /\ Respond("getAllVideos", "-", 0, 0, Items(getAllVideos))
    /\ UNCHANGED <<requests, storeVars, session, disk, nextFile, clock>>

GetVideosByCategory(category) ==
    /\ res' = [op |-> "getVideosByCategory", status |-> 0,
               body |-> Items(getVideosByCategory(category)), category |-> category]
    /\ UNCHANGED <<requests, storeVars, session, disk, nextFile, clock>>

SearchVideos(query) ==
    /\ res' = [op |-> "searchVideos", status |-> 0,
               body |-> Items(searchVideos(query)), query |-> query]
    /\ UNCHANGED <<requests, storeVars, session, disk, nextFile, clock>>

NextVideos ==
    \/ \E v \in StoreInsertVideos, t \in StoreTicks : StoreCreateVideo(v, clock + t)
    \/ \E id \in VideoIds : StoreDeleteVideo(id)
    \/ GetAllVideos
    \/ \E c \in Categories \ {Null} : GetVideosByCategory(c)
    \/ \E q \in Queries : SearchVideos(q)

SpecVideos == Init /\ [][NextVideos]_vars

----------------------------------------------------------------------------
(* SpecUsers: the user methods of MemStorage called directly, as the        *)
(* constructor calls createUser, with any InsertUser value.                 *)

\* the InsertUser values createUser is called with: MemStorage looks at none
\* of the fields
StoreInsertUsers == [username : Usernames, password : Passwords, isAdmin : BOOLEAN]

StoreUpdateUserPassword(id, newPassword) ==
    /\ users' = updateUserPassword(id, newPassword)
    /\ Respond("updateUserPassword", "-", id, 0,
               IF id \in DOMAIN users THEN users'[id] ELSE NoUser)
    /\ UNCHANGED <<requests, categories, nextCategoryId, nextUserId, videos,
                   nextVideoId, session, disk, nextFile, clock>>

\* res keeps the argument of the call beside the user it returned
GetUserByUsername(username) ==
    /\ res' = [op |-> "getUserByUsername", status |-> 0,
               body |-> getUserByUsername(username), username |-> username]
    /\ UNCHANGED <<requests, storeVars, session, disk, nextFile, clock>>

GetUser(id) ==
    /\ res' = [op |-> "getUser", status |-> 0, body |-> getUser(id), id |-> id]
    /\ UNCHANGED <<requests, storeVars, session, disk, nextFile, clock>>

GetAllUsers ==
    /\ Respond("getAllUsers", "-", 0, 0, Items(getAllUsers))
    /\ UNCHANGED <<requests, storeVars, session, disk, nextFile, clock>>

NextUsers ==
    \/ \E u \in StoreInsertUsers : CreateUser(u)
    \/ \E id \in 1..(MaxUsers + 1), p \in Passwords : StoreUpdateUserPassword(id, p)
    \/ \E n \in Usernames : GetUserByUsername(n)
    \/ \E id \in 1..(MaxUsers + 1) : GetUser(id)
    \/ GetAllUsers

SpecUsers == Init /\ [][NextUsers]_vars

----------------------------------------------------------------------------
(* SpecListing: the three listings of the store after createVideo,          *)
(* PUT /videos/:id, deleteVideo and POST /videos/:id/views, on a store of   *)
(* up to MaxListed videos.                                                  *)

MaxListed == 3

AdminLogin == [username |-> "admin", password |-> "admin123"]

\* req.body of PUT /videos/:id: a new title, or an uploadDate that is no date
ListedPatches == { [title |-> "B"], [uploadDate |-> InvalidDate] }

ListedInsertVideos ==
    {Spread(insertVideoParsed([title |-> "Ab", uploaderId |-> 1]), [category |-> "Music"])}

ListedCreateVideo(insertVideo, now) ==
    /\ nextVideoId <= MaxListed
    /\ videos' = createVideo(insertVideo, now)
    /\ nextVideoId' = nextVideoId + 1
    /\ clock' = now
    /\ Respond("createVideo", "-", nextVideoId, 0, videos'[nextVideoId])
    /\ UNCHANGED <<requests, categories, nextCategoryId, users, nextUserId,
                   session, disk, nextFile>>

NextListing ==
    \/ \E s \in Sessions : Login(s, AdminLogin)
    \/ \E v \in ListedInsertVideos, t \in StoreTicks : ListedCreateVideo(v, clock + t)
    \/ \E s \in Sessions, id \in 1..MaxListed, b \in ListedPatches : UpdateVideo(s, id, b)
    \/ \E id \in 1..MaxListed : StoreDeleteVideo(id)
    \/ \E id \in 1..MaxListed : Views(id)
    \/ GetAllVideos
    \/ \E c \in {"Music", "All"} : GetVideosByCategory(c)
    \/ \E q \in {"", "b"} : SearchVideos(q)

SpecListing == Init /\ [][NextListing]_vars

----------------------------------------------------------------------------
(* SpecStore: every method of MemStorage called directly, with ids that are *)
(* in the maps and ids that are not.                                        *)

\* the seeded categories and one more
MaxCategories == 8

InsertCategories == [name : {"News"}]

StoreGetVideo(id) ==
    /\ res' = [op |-> "getVideo", status |-> 0, body |-> getVideo(id), id |-> id]
    /\ UNCHANGED <<requests, storeVars, session, disk, nextFile, clock>>

StoreUpdateVideo(id, updates) ==
    /\ videos' = updateVideo(id, updates)
    /\ Respond("updateVideo", "-", id, 0,
               IF id \in DOMAIN videos THEN videos'[id] ELSE Undefined)
    /\ UNCHANGED <<requests, users, nextUserId, nextVideoId, categories, nextCategoryId,
                   session, disk, nextFile, clock>>

StoreIncrementViews(id) ==
    /\ id \in DOMAIN videos => videos[id].views < MaxViews
    /\ videos' = incrementViews(id)
    /\ Respond("incrementViews", "-", id, 0,
               IF id \in DOMAIN videos THEN videos'[id] ELSE Undefined)
    /\ UNCHANGED <<requests, users, nextUserId, nextVideoId, categories, nextCategoryId,
                   session, disk, nextFile, clock>>

CreateCategory(insertCategory) ==
    /\ nextCategoryId <= MaxCategories
    /\ categories' = createCategory(insertCategory)
    /\ nextCategoryId' = nextCategoryId + 1
    /\ Respond("createCategory", "-", nextCategoryId, 0, categories'[nextCategoryId])
    /\ UNCHANGED <<requests, users, nextUserId, videos, nextVideoId, session,
                   disk, nextFile, clock>>

GetAllCategories ==
    /\ Respond("getAllCategories", "-", 0, 0, Items(getAllCategories))
    /\ UNCHANGED <<requests, storeVars, session, disk, nextFile, clock>>

\* the values the store's methods are called with
StoredInsertUsers == [username : {"alice"}, password : {"hunter22"}, isAdmin : {FALSE}]
StoredInsertVideos == {insertVideoParsed([title |-> "Ab", uploaderId |-> 1])}
StoredUpdates == { [title |-> "B"] }

NextStore ==
    \/ \E u \in StoredInsertUsers : CreateUser(u)
    \/ \E id \in 1..(MaxUsers + 1) : GetUser(id)
    \/ \E id \in 1..(MaxUsers + 1) : StoreUpdateUserPassword(id, "hunter22")
    \/ \E v \in StoredInsertVideos, t \in Ticks : StoreCreateVideo(v, clock + t)
    \/ \E id \in VideoIds : StoreGetVideo(id)
    \/ \E id \in VideoIds, u \in StoredUpdates : StoreUpdateVideo(id, u)
    \/ \E id \in VideoIds : StoreIncrementViews(id)
    \/ \E id \in VideoIds : StoreDeleteVideo(id)
    \/ \E c \in InsertCategories : CreateCategory(c)
    \/ GetAllCategories

SpecStore == Init /\ [][NextStore]_vars

----------------------------------------------------------------------------
(* SpecStreams: GET /stream/:id requests in flight together.  The handler   *)
(* answers the headers and pipes a read stream of its own into the          *)
(* response; the stream delivers the file chunk by chunk, and the chunks of *)
(* different requests interleave.                                           *)

\* the bytes one read of a stream delivers at most (its highWaterMark)
ChunkSize == 2
StreamedFileSize == 5

StreamedRanges ==
    {<<>>, closedRange(1, 3), openRange(2), closedRange(0, 4), closedRange(4, 4)}

InitStreams ==
    /\ InitStream
    /\ videos = (1 :> UploadedVideo(1))
    /\ disk = (1 :> FileOf(StreamedFileSize, 0))

\* a read position that every stream of the file shares
readOffsetShared(r) ==
    LET open == {q \in Slots : requests[q].op = "stream" /\ requests[q].path = requests[r].path}
    IN  CHOOSE p \in {requests[q].pos : q \in open} :
            \A q \in open : requests[q].pos <= p

\* the offset the stream of request r reads next: each stream has its own
\* file handle and position
readOffset(r) == requests[r].pos

\* the last offset the stream of request r delivers
lastOffset(r) ==
    LET size == Len(disk[requests[r].path])
    IN  IF requests[r].end < size - 1 THEN requests[r].end ELSE size - 1

\* the handler up to file.pipe(res): the answer is sent at once when it is
\* no stream, else the headers are written and the stream is opened
StreamBegin(r, id, range) ==
    /\ requests[r] = Idle
    /\ LET answer == streamAnswer(id, range)
       IN  IF answer.status \notin {200, 206}
           THEN res' = answer /\ UNCHANGED requests
           ELSE /\ requests' = [requests EXCEPT ![r] =
                       [op |-> "stream", id |-> id, range |-> range,
                        path |-> videos[id].filePath,
                        head |-> [answer EXCEPT !.body = <<>>],
                        start |-> IF answer.status = 206 THEN answer.contentRange.start ELSE 0,
                        end |-> IF answer.status = 206 THEN answer.contentRange.end
                                ELSE answer.contentLength - 1,
                        pos |-> IF answer.status = 206 THEN answer.contentRange.start ELSE 0,
                        sent |-> <<>>]]
                /\ UNCHANGED res
    /\ UNCHANGED <<storeVars, session, disk, nextFile, clock>>

\* one read of the stream of request r, written to its response
StreamRead(r) ==
    /\ requests[r].op = "stream"
    /\ LET off == readOffset(r)
           n == IF lastOffset(r) - off + 1 < ChunkSize THEN lastOffset(r) - off + 1
                ELSE ChunkSize
       IN  /\ off <= lastOffset(r)
           /\ requests' = [requests EXCEPT
                   ![r].sent = @ \o SubSeq(disk[requests[r].path], off + 1, off + n),
                   ![r].pos = off + n]
    /\ UNCHANGED <<storeVars, session, disk, nextFile, clock, res>>

\* the stream of request r has nothing left: the response ends
StreamEnd(r) ==
    /\ requests[r].op = "stream"
    /\ readOffset(r) > lastOffset(r)
    /\ res' = [requests[r].head EXCEPT !.body = requests[r].sent]
    /\ requests' = [requests EXCEPT ![r] = Idle]
    /\ UNCHANGED <<storeVars, session, disk, nextFile, clock>>

NextStreams ==
    \/ \E r \in Slots, id \in 1..2, range \in StreamedRanges : StreamBegin(r, id, range)
    \/ \E r \in Slots : StreamRead(r)
    \/ \E r \in Slots : StreamEnd(r)

SpecStreams == InitStreams /\ [][NextStreams]_vars

----------------------------------------------------------------------------
(* SpecRace: PUT /videos/:id, DELETE /videos/:id and POST /videos/:id/views *)
(* in flight together, each handler one step from an await to the next.    *)
(* A method of MemStorage runs to its end when it is called; the handler    *)
(* that awaits it goes on in a later step, and steps of other requests may  *)
(* come between.                                                            *)

\* PUT up to await storage.getVideo(id)
PutBegin(r, s, id, body) ==
    /\ requests[r] = Idle
    /\ IF ~requireAuth(s)
       THEN /\ Respond("update", s, id, 401, Message("Unauthorized"))
            /\ UNCHANGED requests
       ELSE /\ requests' = [requests EXCEPT ![r] =
                   [op |-> "put", pc |-> "got", s |-> s, id |-> id, body |-> body,
                    video |-> getVideo(id), result |-> Undefined]]
            /\ UNCHANGED res
    /\ UNCHANGED <<storeVars, session, disk, nextFile, clock>>

\* PUT from the video it got up to await storage.updateVideo(id, req.body)
PutUpdate(r) ==
    /\ requests[r].op = "put" /\ requests[r].pc = "got"
    /\ LET q == requests[r]
       IN  IF q.video = Undefined
           THEN /\ Respond("update", q.s, q.id, 404, Message("Video not found"))
                /\ requests' = [requests EXCEPT ![r] = Idle]
                /\ UNCHANGED videos
           ELSE IF updateRefused(session[q.s], q.video)
           THEN /\ Respond("update", q.s, q.id, 403,
                           Message("Not authorized to update this video"))
                /\ requests' = [requests EXCEPT ![r] = Idle]
                /\ UNCHANGED videos
           ELSE /\ videos' = updateVideo(q.id, q.body)
                /\ requests' = [requests EXCEPT ![r] =
                       [q EXCEPT !.pc = "updated",
                                 !.result = IF q.id \in DOMAIN videos THEN videos'[q.id]
                                            ELSE Undefined]]
                /\ UNCHANGED res
    /\ UNCHANGED <<users, nextUserId, nextVideoId, categories, nextCategoryId,
                   session, disk, nextFile, clock>>

\* PUT: res.json(updatedVideo)
PutEnd(r) ==
    /\ requests[r].op = "put" /\ requests[r].pc = "updated"
    /\ Respond("update", requests[r].s, requests[r].id, 200, requests[r].result)
    /\ requests' = [requests EXCEPT ![r] = Idle]
    /\ UNCHANGED <<storeVars, session, disk, nextFile, clock>>

\* DELETE up to await storage.getVideo(id)
DeleteBegin(r, s, id) ==
    /\ requests[r] = Idle
    /\ IF ~requireAuth(s)
       THEN /\ Respond("delete", s, id, 401, Message("Unauthorized"))
            /\ UNCHANGED requests
       ELSE /\ requests' = [requests EXCEPT ![r] =
                   [op |-> "delete", pc |-> "got", s |-> s, id |-> id,
                    video |-> getVideo(id)]]
            /\ UNCHANGED res
    /\ UNCHANGED <<storeVars, session, disk, nextFile, clock>>

\* DELETE from the video it got up to await storage.deleteVideo(id)
DeleteRemove(r) ==
    /\ requests[r].op = "delete" /\ requests[r].pc = "got"
    /\ LET q == requests[r]
       IN  IF q.video = Undefined
           THEN /\ Respond("delete", q.s, q.id, 404, Message("Video not found"))
                /\ requests' = [requests EXCEPT ![r] = Idle]
                /\ UNCHANGED videos
           ELSE IF deleteRefused(session[q.s], q.video)
           THEN /\ Respond("delete", q.s, q.id, 403,
                           Message("Not authorized to delete this video"))
                /\ requests' = [requests EXCEPT ![r] = Idle]
                /\ UNCHANGED videos
           ELSE /\ videos' = deleteVideo(q.id)
                /\ requests' = [requests EXCEPT ![r] = [q EXCEPT !.pc = "deleted"]]
                /\ UNCHANGED res
    /\ UNCHANGED <<users, nextUserId, nextVideoId, categories, nextCategoryId,
                   session, disk, nextFile, clock>>

\* DELETE: the file of the video it got, then the answer
DeleteEnd(r, unlinkFails) ==
    /\ requests[r].op = "delete" /\ requests[r].pc = "deleted"
    /\ LET q == requests[r]
       IN  IF q.video.filePath \notin DOMAIN disk
           THEN /\ UNCHANGED disk
                /\ Respond("delete", q.s, q.id, 200, Message("Video deleted successfully"))
           ELSE IF unlinkFails
           THEN /\ UNCHANGED disk
                /\ Respond("delete", q.s, q.id, 500, Message("Error deleting video"))
           ELSE /\ disk' = [p \in (DOMAIN disk) \ {q.video.filePath} |-> disk[p]]
                /\ Respond("delete", q.s, q.id, 200, Message("Video deleted successfully"))
    /\ requests' = [requests EXCEPT ![r] = Idle]
    /\ UNCHANGED <<storeVars, session, nextFile, clock>>

\* POST /videos/:id/views up to await storage.incrementViews(id)
ViewsBegin(r, id) ==
    /\ requests[r] = Idle
    /\ id \in DOMAIN videos => videos[id].views < MaxViews
    /\ videos' = incrementViews(id)
    /\ requests' = [requests EXCEPT ![r] =
           [op |-> "views", pc |-> "incremented", id |-> id,
            result |-> IF id \in DOMAIN videos THEN videos'[id] ELSE Undefined]]
    /\ UNCHANGED <<users, nextUserId, nextVideoId, categories, nextCategoryId,
                   session, disk, nextFile, clock, res>>

\* POST /videos/:id/views: the answer
ViewsEnd(r) ==
    /\ requests[r].op = "views"
    /\ IF requests[r].result = Undefined
       THEN Respond("views", "-", requests[r].id, 404, Message("Video not found"))
       ELSE Respond("views", "-", requests[r].id, 200, [views |-> requests[r].result.views])
    /\ requests' = [requests EXCEPT ![r] = Idle]
    /\ UNCHANGED <<storeVars, session, disk, nextFile, clock>>

NextRace ==
    \/ \E s \in Sessions : Login(s, AdminLogin)
    \/ \E v \in StoredInsertVideos, t \in Ticks : StoreCreateVideo(v, clock + t)
    \/ \E r \in Slots, s \in Sessions, id \in 1..MaxVideos, b \in StoredUpdates :
          PutBegin(r, s, id, b)
    \/ \E r \in Slots : PutUpdate(r)
    \/ \E r \in Slots : PutEnd(r)
    \/ \E r \in Slots, s \in Sessions, id \in 1..MaxVideos : DeleteBegin(r, s, id)
    \/ \E r \in Slots : DeleteRemove(r)
    \/ \E r \in Slots, f \in BOOLEAN : DeleteEnd(r, f)
    \/ \E r \in Slots, id \in 1..MaxVideos : ViewsBegin(r, id)
    \/ \E r \in Slots : ViewsEnd(r)

SpecRace == Init /\ [][NextRace]_vars

----------------------------------------------------------------------------
(* Properties *)

\* the session's user is logged in, is no admin and is not the uploader of video id
NeitherOwnerNorAdmin(s, id) ==
    /\ session[s] # NoUser
    /\ id \in DOMAIN videos
    /\ ~session[s].isAdmin
    /\ videos[id].uploaderId # session[s].id

\* the session's user is logged in and is an admin or the uploader of video id
OwnerOrAdmin(s, id) ==
    /\ session[s] # NoUser
    /\ id \in DOMAIN videos
    /\ (session[s].isAdmin \/ videos[id].uploaderId = session[s].id)

\* C1: a Range header bytes=<a>-<b>, or bytes=<a>- with b the last offset, with
\* 0 <= a <= b <= fileSize - 1 on an existing file is answered 206 with
\* Content-Range bytes a-b/fileSize, Content-Length b - a + 1 and the bytes at
\* the offsets a..b of the file as the body.
C1_RangeServed ==
    \A a \in Offsets, b \in Offsets :
        ( /\ res.op = "stream"
          /\ res.id \in DOMAIN videos
          /\ videos[res.id].filePath \in DOMAIN disk
          /\ a <= b
          /\ b <= Len(disk[videos[res.id].filePath]) - 1
          /\ \/ res.range = BytesEq \o toString(a) \o <<"-">> \o toString(b)
             \/ /\ res.range = BytesEq \o toString(a) \o <<"-">>
                /\ b = Len(disk[videos[res.id].filePath]) - 1 )
        => LET file == disk[videos[res.id].filePath]
           IN  /\ res.status = 206
               /\ res.contentRange = [start |-> a, end |-> b, size |-> Len(file)]
               /\ res.contentLength = b - a + 1
               /\ Len(res.body) = b - a + 1
               /\ \A i \in 1..(b - a + 1) : res.body[i] = file[a + i]

\* C1, its case: bytes=10-11 on a file of 12 bytes was answered with 2 bytes
C1_Witness ==
    /\ res.op = "stream"
    /\ res.status = 206
    /\ res.range = <<"b", "y", "t", "e", "s", "=", "1", "0", "-", "1", "1">>
    /\ Len(disk[videos[res.id].filePath]) = 12
    /\ Len(res.body) = 2

\* C2: DELETE /videos/:id by a logged-in user who is neither the uploader nor
\* an admin is answered 403 and leaves every record and every file as it was.
C2_DeleteForbidden ==
    [][res'.op = "delete" =>
       \A s \in Sessions, id \in VideoIds, f \in BOOLEAN :
          (DeleteVideo(s, id, f) /\ NeitherOwnerNorAdmin(s, id))
          => (res'.status = 403 /\ videos' = videos /\ disk' = disk)]_vars

\* C2, its case: such a DELETE was answered 403, the record and its file are there
C2_Witness ==
    /\ res.op = "delete" /\ res.status = 403
    /\ \E s \in Sessions, id \in DOMAIN videos :
          NeitherOwnerNorAdmin(s, id) /\ videos[id].filePath \in DOMAIN disk

\* C3: change-password by a logged-in user with a currentPassword that differs
\* from the stored password is answered 400; every stored password and the
\* session's user stay as they were.
C3_WrongCurrentPassword ==
    [][res'.op = "change-password" =>
       \A s \in Sessions, b \in PasswordBodies :
          ( /\ ChangePassword(s, b)
            /\ session[s] # NoUser
            /\ session[s].id \in DOMAIN users
            /\ users[session[s].id].password # b.currentPassword )
          => (res'.status = 400 /\ users' = users /\ session' = session)]_vars

\* C3, its case: a well-formed request was refused for its current password
C3_Witness ==
    /\ res.op = "change-password" /\ res.status = 400
    /\ res.body.message = "Current password is incorrect"
    /\ \E s \in Sessions : session[s] # NoUser

\* a request of session s to one of the routes the interface table marks "session"
SessionRoute(s) ==
    \/ Logout(s)
    \/ \E b \in PasswordBodies : ChangePassword(s, b)
    \/ \E part \in FileParts \cup {NoFile}, d \in VideoDatas, t \in Ticks :
          Upload(s, part, d, clock + t)
    \/ \E id \in VideoIds, b \in Patches : UpdateVideo(s, id, b)
    \/ \E id \in VideoIds, f \in BOOLEAN : DeleteVideo(s, id, f)
    \/ AdminVideos(s)
    \/ AdminUsers(s)

\* C4: a request of a session with no user to a route that requires a session
\* is answered 401 and changes nothing in the store or on disk.
C4_Unauthenticated401 ==
    [][\A s \in Sessions :
          (SessionRoute(s) /\ session[s] = NoUser)
          => (res'.status = 401 /\ storeVars' = storeVars /\ disk' = disk)]_vars

\* C5: the admin lists are sent only to a session whose user has isAdmin; a
\* logged-in user without it is answered 403 and is sent no list.
C5_AdminOnly ==
    [][res'.op \in {"admin-videos", "admin-users"} =>
       \A s \in Sessions :
          (AdminVideos(s) \/ AdminUsers(s))
          => /\ res'.status \in {200, 403}
             /\ res'.status = 200 => (session[s] # NoUser /\ session[s].isAdmin)
             /\ (session[s] # NoUser /\ ~session[s].isAdmin)
                   => (res'.status = 403 /\ DOMAIN res'.body = {"message"})
             /\ (res'.status = 200 /\ res'.op = "admin-users")
                   => (DOMAIN res'.body.items = DOMAIN users
                       /\ \A i \in DOMAIN users : res'.body.items[i] = users[i])
             /\ (res'.status = 200 /\ res'.op = "admin-videos")
                   => (/\ Len(res'.body.items) = Cardinality(DOMAIN videos)
                       /\ \A i \in DOMAIN videos :
                             \E k \in 1..Len(res'.body.items) :
                                res'.body.items[k] = videos[i])]_vars

\* C5, its case: a logged-in user without the admin flag asked for a list
C5_Witness ==
    /\ res.op \in {"admin-videos", "admin-users"} /\ res.status = 403
    /\ \E s \in Sessions : session[s] # NoUser /\ ~session[s].isAdmin
    /\ DOMAIN videos # {}

\* C6: the views of a video that stays in the store never decrease, whatever
\* the operation.
C6_ViewsNeverDecrease ==
    [][\A id \in (DOMAIN videos) \cap (DOMAIN videos') :
          videos'[id].views >= videos[id].views]_vars

\* C7: every incrementViews on an existing video raises its views by exactly
\* one, changes nothing else and reports the new count, in whatever order the
\* requests are handled: N of them raise the views by N.
C7_IncrementExact ==
    [][res'.op = "views" =>
       \A id \in VideoIds :
          (Views(id) /\ id \in DOMAIN videos)
          => /\ DOMAIN videos' = DOMAIN videos
             /\ videos'[id].views = videos[id].views + 1
             /\ \A k \in (DOMAIN videos[id]) \ {"views"} : videos'[id][k] = videos[id][k]
             /\ \A j \in (DOMAIN videos) \ {id} : videos'[j] = videos[j]
             /\ res'.status = 200
             /\ res'.body.views = videos[id].views + 1]_vars

\* C7, its case: the second of two increments answered 2
C7_Witness ==
    /\ res.op = "views" /\ res.status = 200 /\ res.body.views = 2
    /\ \E id \in DOMAIN videos : videos[id].views = 2

\* mimetype does not start with video/
NotVideoMime(mimetype) ==
    \/ Len(mimetype) < 6
    \/ <<mimetype[1], mimetype[2], mimetype[3], mimetype[4], mimetype[5], mimetype[6]>>
          # <<"v", "i", "d", "e", "o", "/">>

\* C8: an upload whose file has a MIME type that does not start with video/ is
\* rejected; no record is created, nextVideoId stays and no file is stored.
C8_NonVideoRejected ==
    [][res'.op = "upload" =>
       \A s \in Sessions, part \in FileParts, d \in VideoDatas, t \in Ticks :
          (Upload(s, part, d, clock + t) /\ NotVideoMime(part.mimetype))
          => /\ res'.status >= 400
             /\ videos' = videos
             /\ nextVideoId' = nextVideoId
             /\ disk' = disk]_vars

\* C8, its case: a logged-in user's upload was refused by the file filter
C8_Witness ==
    /\ res.op = "upload" /\ res.status = 500
    /\ res.body.message = "Only video files are allowed"
    /\ \E s \in Sessions : session[s] # NoUser

\* C9: a record that enters the store has the uploaderId of the user of the
\* session that uploaded it, and that id is the id of a stored user.
C9_UploaderIsSessionUser ==
    [][\A id \in (DOMAIN videos') \ (DOMAIN videos) :
          \E s \in Sessions, part \in FileParts, d \in VideoDatas, t \in Ticks :
              /\ Upload(s, part, d, clock + t)
              /\ session[s] # NoUser
              /\ videos'[id].uploaderId = session[s].id
              /\ session[s].id \in DOMAIN users
              /\ users[session[s].id].id = session[s].id]_vars

\* C9, its case: user 2 uploaded, and the record names user 2
C9_Witness ==
    /\ res.op = "upload" /\ res.status = 201 /\ res.body.uploaderId = 2
    /\ \E s \in Sessions : session[s].id = 2
    /\ 2 \in DOMAIN users

\* C10: a record changes only by a PUT of its uploader or of an admin, or by
\* a view increment; it leaves the store only by a DELETE of its uploader or
\* of an admin; a PUT of a logged-in user who is neither is answered 403 and
\* changes no record.
C10_OwnerOrAdminOnly ==
    [][(videos' # videos \/ res'.op = "update") =>
       \A id \in DOMAIN videos :
          /\ (id \in DOMAIN videos' /\ videos'[id] # videos[id])
                => \/ \E s \in Sessions, b \in Patches :
                          UpdateVideo(s, id, b) /\ OwnerOrAdmin(s, id) /\ res'.status = 200
                   \/ /\ Views(id)
                      /\ videos'[id] = [videos[id] EXCEPT !.views = @ + 1]
          /\ id \notin DOMAIN videos'
                => \E s \in Sessions, f \in BOOLEAN :
                      DeleteVideo(s, id, f) /\ OwnerOrAdmin(s, id)
          /\ \A s \in Sessions, b \in Patches :
                (UpdateVideo(s, id, b) /\ NeitherOwnerNorAdmin(s, id))
                => (res'.status = 403 /\ videos' = videos)]_vars

\* C10, its case: a PUT of a user who is neither was answered 403
C10_Witness ==
    /\ res.op = "update" /\ res.status = 403
    /\ \E s \in Sessions, id \in DOMAIN videos : NeitherOwnerNorAdmin(s, id)

\* C11: a DELETE of the uploader or of an admin that is answered 200 leaves no
\* record with that id and no file at the record's path; every other record,
\* and the file of every other record, is as it was.
C11_DeleteRemovesRecordAndFile ==
    [][res'.op = "delete" =>
       \A s \in Sessions, id \in VideoIds, f \in BOOLEAN :
          (DeleteVideo(s, id, f) /\ OwnerOrAdmin(s, id) /\ res'.status = 200)
          => /\ id \notin DOMAIN videos'
             /\ videos[id].filePath \notin DOMAIN disk'
             /\ \A j \in (DOMAIN videos) \ {id} :
                   /\ j \in DOMAIN videos' /\ videos'[j] = videos[j]
                   /\ videos[j].filePath \in DOMAIN disk
                         => /\ videos[j].filePath \in DOMAIN disk'
                            /\ disk'[videos[j].filePath] = disk[videos[j].filePath]]_vars

\* C12: an embed request of a logged-in user with a title and a valid absolute
\* URL creates a record with isEmbedded true, that URL as embedUrl and the
\* session's user as uploaderId, and stores no file.
C12_EmbedCreatesRecord ==
    [][res'.op = "embed" =>
       \A s \in Sessions, b \in EmbedBodies, status \in {200, 404} :
          (Embed(s, b, status) /\ session[s] # NoUser /\ embedVideoSchema(b))
          => /\ \E id \in (DOMAIN videos') \ (DOMAIN videos) :
                   /\ videos'[id].isEmbedded = TRUE
                   /\ videos'[id].embedUrl = b.embedUrl
                   /\ videos'[id].uploaderId = session[s].id
             /\ disk' = disk]_vars

\* array holds every stored video once and nothing else
AllStoredVideos(array) ==
    /\ Len(array) = Cardinality(DOMAIN videos)
    /\ \A i \in DOMAIN videos : \E k \in 1..Len(array) : array[k] = videos[i]

\* array is ordered by uploadDate, latest first
LatestFirst(array) ==
    \A k \in 1..(Len(array) - 1) : array[k].uploadDate >= array[k + 1].uploadDate

\* C13: getVideosByCategory("All") returns every stored video, whatever its
\* category, latest first: the very sequence getAllVideos returns.
C13_AllIsEveryVideo ==
    (res.op = "getVideosByCategory" /\ res.category = "All")
    => /\ AllStoredVideos(res.body.items)
       /\ LatestFirst(res.body.items)
       /\ res.body.items = getAllVideos

\* C13, its case: "All" returned two videos of which none has the category
\* "All" and one has none, uploaded at different times
C13_Witness ==
    /\ res.op = "getVideosByCategory" /\ res.category = "All"
    /\ Len(res.body.items) = 2
    /\ res.body.items[1].uploadDate > res.body.items[2].uploadDate
    /\ res.body.items[1].category = Null
    /\ res.body.items[2].category = "Music"

\* C15: a request without a Range header for a video whose file exists is
\* answered 200 with Content-Length the size of the file and the whole file
\* as the body.
C15_FullContent ==
    ( /\ res.op = "stream"
      /\ res.range = <<>>
      /\ res.id \in DOMAIN videos
      /\ videos[res.id].filePath \in DOMAIN disk )
    => /\ res.status = 200
       /\ res.contentLength = Len(disk[videos[res.id].filePath])
       /\ res.body = disk[videos[res.id].filePath]

\* C15, its case: a file of 12 bytes was sent whole
C15_Witness ==
    /\ res.op = "stream" /\ res.status = 200 /\ res.range = <<>>
    /\ res.contentLength = 12
    /\ Len(res.body) = 12

Credentials(body) ==
    \E i \in DOMAIN users :
        users[i].username = body.username /\ users[i].password = body.password

\* the login attached the stored user of that name and answered its summary
LoginAttached(s, body) ==
    \E i \in DOMAIN users :
        /\ users[i].username = body.username
        /\ session' = [session EXCEPT ![s] = users[i]]
        /\ res'.status = 200
        /\ res'.body = [id |-> users[i].id, username |-> users[i].username,
                        isAdmin |-> users[i].isAdmin]

\* me reports authenticated exactly when a user is attached, with its id
MeReports(s) ==
    /\ res'.body.authenticated = (session[s] # NoUser)
    /\ res'.status = IF session[s] # NoUser THEN 200 ELSE 401
    /\ session[s] # NoUser => res'.body.user.id = session[s].id
    /\ session' = session

\* the step is a login of session s that was answered 200
LoggedIn(s) ==
    res'.op = "login" /\ res'.status = 200 /\ \E b \in LoginBodies : Login(s, b)

\* C17 as stated: a session has a user exactly when its latest successful
\* login was not followed by a logout; a login with the credentials of a
\* stored user attaches that user and answers its summary; any other login is
\* answered 401 and leaves the session as it was; me reports the attached user.
C17_SessionFollowsLogin ==
    [][\A s \in Sessions :
          /\ res'.op = "login" =>
                \A b \in LoginBodies :
                   Login(s, b) =>
                      IF Credentials(b) THEN LoginAttached(s, b)
                      ELSE res'.status = 401 /\ session' = session
          /\ (res'.op = "me" /\ Me(s)) => MeReports(s)
          /\ session'[s] # NoUser
                <=> (LoggedIn(s) \/ (session[s] # NoUser /\ ~Logout(s)))]_vars

\* C17 amended: a session has a user exactly when its latest successful login
\* was followed neither by a logout nor by the expiry of the session; a login
\* whose body fails the login schema is answered 400, one that passes it
\* with the credentials of a stored user attaches that user and answers its
\* summary, one that passes it with an unknown username or a wrong password
\* is answered 401; a refused login leaves the session as it was; me reports
\* the attached user.
C17_SessionFollowsLoginUntilExpiry ==
    [][\A s \in Sessions :
          /\ res'.op = "login" =>
                \A b \in LoginBodies :
                   Login(s, b) =>
                      IF ~loginSchema(b) THEN res'.status = 400 /\ session' = session
                      ELSE IF Credentials(b) THEN LoginAttached(s, b)
                      ELSE res'.status = 401 /\ session' = session
          /\ (res'.op = "me" /\ Me(s)) => MeReports(s)
          /\ session'[s] # NoUser
                <=> (LoggedIn(s) \/ (session[s] # NoUser /\ ~Logout(s) /\ ~Expire(s)))]_vars

\* C17, its case: a login with a wrong password on a session that has a
\* user was answered 401 and the user is still attached
C17_Witness ==
    /\ res.op = "login" /\ res.status = 401
    /\ \E s \in Sessions : session[s] # NoUser /\ ~session[s].isAdmin

malformedVideoData(videoData, part, user) ==
    \/ ~videoData.json
    \/ ~insertVideoSchema(uploadInput(videoData.fields, UploadedFile(part, nextFile), user))

\* C19: a request with a malformed body is answered 400 and changes no store
\* state: a login or a logged-in user's change-password whose body fails its
\* schema, and a logged-in user's upload that carries no file, or a video
\* file with video data that is no valid JSON or fails the insert-video
\* schema.
C19_MalformedBodyIs400 ==
    [][/\ res'.op = "login" =>
             (\A s \in Sessions, b \in LoginBodies :
                (~loginSchema(b) /\ Login(s, b))
                => (res'.status = 400 /\ UNCHANGED storeVars))
       /\ res'.op = "change-password" =>
             (\A s \in Sessions, b \in PasswordBodies :
                (session[s] # NoUser /\ ~passwordChangeSchema(b) /\ ChangePassword(s, b))
                => (res'.status = 400 /\ UNCHANGED storeVars))
       /\ res'.op = "upload" =>
             (\A s \in Sessions, part \in FileParts \cup {NoFile}, d \in VideoDatas, t \in Ticks :
                (/\ session[s] # NoUser
                 /\ part = NoFile \/ (/\ fileFilter(part.mimetype)
                                      /\ malformedVideoData(d, part, session[s]))
                 /\ Upload(s, part, d, clock + t))
                => (res'.status = 400 /\ UNCHANGED storeVars))]_vars

\* C20: no two users of the store share a username, whatever createUser and
\* updateUserPassword calls followed the seed; getUserByUsername then names
\* at most one user.
C20_UsernamesDistinct ==
    \A i, j \in DOMAIN users : users[i].username = users[j].username => i = j

\* C21: every listing (getAllVideos, getVideosByCategory, searchVideos)
\* returns its videos in non-increasing order of uploadDate, whatever
\* creations, updates, deletions and view increments came before: of two
\* listed videos with a date, the one listed first is not the older.
C21_ListingsLatestFirst ==
    res.op \in {"getAllVideos", "getVideosByCategory", "searchVideos"}
    => \A k, m \in 1..Len(res.body.items) :
          ( /\ k < m
            /\ res.body.items[k].uploadDate # InvalidDate
            /\ res.body.items[m].uploadDate # InvalidDate )
          => res.body.items[k].uploadDate >= res.body.items[m].uploadDate

\* C22: createVideo hands out the ids 1, 2, 3, ... in the order of the
\* calls and never one again: the counter never goes back, every stored id
\* is below it, and a step that creates a video stores it under the counter's
\* value, which is above every id in the store and every id deleted from it,
\* and moves the counter by one.
C22_IdsIncreaseNeverReused ==
    [][/\ nextVideoId' >= nextVideoId
       /\ nextVideoId >= 1
       /\ \A i \in DOMAIN videos : 1 <= i /\ i < nextVideoId
       /\ (nextVideoId' # nextVideoId \/ (DOMAIN videos') \ (DOMAIN videos) # {})
            => (/\ nextVideoId' = nextVideoId + 1
                /\ DOMAIN videos' = (DOMAIN videos) \cup {nextVideoId}
                /\ videos'[nextVideoId].id = nextVideoId
                /\ res'.op = "createVideo"
                /\ res'.body.id = nextVideoId)]_vars

\* C22, its case: video 1 was deleted and the createVideo that followed
\* returned id 2
C22_Witness ==
    /\ res.op = "createVideo" /\ res.body.id = 2
    /\ DOMAIN videos = {2}

\* C23: DELETE /videos/:id removes the record before the file and does not
\* roll back: when removing the file fails the request is answered 500, the
\* record is gone, every other record is as it was and the file is still on
\* disk; and a record that was removed never comes back.
C23_NoRollback ==
    [][/\ res'.op = "delete" =>
            (\A s \in Sessions, id \in VideoIds :
                (DeleteVideo(s, id, TRUE) /\ res'.status = 500)
                => (/\ id \in DOMAIN videos
                    /\ id \notin DOMAIN videos'
                    /\ disk' = disk
                    /\ videos[id].filePath \in DOMAIN disk'
                    /\ \A j \in DOMAIN videos' : videos'[j] = videos[j]))
       /\ \A id \in VideoIds :
            (id < nextVideoId /\ id \notin DOMAIN videos) => id \notin DOMAIN videos']_vars

\* C23, its case: a DELETE was answered 500 and left a file no record names
C23_Witness ==
    /\ res.op = "delete" /\ res.status = 500
    /\ \E p \in DOMAIN disk : \A i \in DOMAIN videos : videos[i].filePath # p

\* C24: a store method addressed to an id that is not in its map returns the
\* absent value (deleteVideo: false) and changes no map and no counter;
\* createUser, createVideo and createCategory return the record they stored
\* under the id they took from the counter.
C24_AbsentIdChangesNothing ==
    [][/\ \A id \in VideoIds :
            id \notin DOMAIN videos
            => /\ StoreGetVideo(id) => (res'.body = Undefined /\ UNCHANGED storeVars)
               /\ (\E u \in StoredUpdates : StoreUpdateVideo(id, u))
                     => (res'.body = Undefined /\ UNCHANGED storeVars)
               /\ StoreIncrementViews(id) => (res'.body = Undefined /\ UNCHANGED storeVars)
               /\ StoreDeleteVideo(id) => (res'.body = [deleted |-> FALSE] /\ UNCHANGED storeVars)
       /\ \A id \in 1..(MaxUsers + 1) :
            id \notin DOMAIN users
            => /\ GetUser(id) => (res'.body = NoUser /\ UNCHANGED storeVars)
               /\ StoreUpdateUserPassword(id, "hunter22")
                     => (res'.body = NoUser /\ UNCHANGED storeVars)
       /\ res'.op = "createUser" =>
            (/\ DOMAIN users' = (DOMAIN users) \cup {nextUserId}
             /\ res'.body = users'[nextUserId]
             /\ res'.body.id = nextUserId /\ nextUserId \notin DOMAIN users)
       /\ res'.op = "createVideo" =>
            (/\ DOMAIN videos' = (DOMAIN videos) \cup {nextVideoId}
             /\ res'.body = videos'[nextVideoId]
             /\ res'.body.id = nextVideoId /\ nextVideoId \notin DOMAIN videos)
       /\ res'.op = "createCategory" =>
            (/\ DOMAIN categories' = (DOMAIN categories) \cup {nextCategoryId}
             /\ res'.body = categories'[nextCategoryId]
             /\ res'.body.id = nextCategoryId /\ nextCategoryId \notin DOMAIN categories)]_vars

\* C24, its case: updateVideo was called for an id that had been deleted
C24_Witness ==
    /\ res.op = "updateVideo" /\ res.body = Undefined
    /\ nextVideoId = 3 /\ DOMAIN videos = {2}
    /\ nextCategoryId = MaxCategories + 1

\* C25: a user record is never deleted and keeps its id, username and
\* isAdmin; its password changes only in a change-password request answered
\* 200 that came on a session whose attached user has the record's id.
C25_UsersOnlyChangePassword ==
    [][\A i \in DOMAIN users :
          /\ i \in DOMAIN users'
          /\ users'[i].id = users[i].id
          /\ users'[i].username = users[i].username
          /\ users'[i].isAdmin = users[i].isAdmin
          /\ users'[i].password # users[i].password
                => /\ res'.op = "change-password" /\ res'.status = 200
                   /\ \E s \in Sessions, b \in PasswordBodies :
                         /\ session[s] # NoUser /\ session[s].id = i
                         /\ ChangePassword(s, b)]_vars

\* C25, its case: with two users stored, the admin changed the password
C25_Witness ==
    /\ res.op = "change-password" /\ res.status = 200
    /\ DOMAIN users = {1, 2}
    /\ users[1].password = "hunter22" /\ users[2].username = "alice"

\* C26: stream requests in flight together do not interfere: what a request
\* has been sent so far is the start of its own window of the file, up to
\* its own position, and a finished response carries exactly the bytes of
\* the window it asked for.
C26_StreamsDoNotInterfere ==
    /\ \A r \in Slots :
          requests[r].op = "stream"
          => requests[r].sent
                = readStream(disk[requests[r].path], requests[r].start, requests[r].pos - 1)
    /\ (res.op = "stream" /\ res.status \in {200, 206})
          => res.body = readStream(disk[videos[res.id].filePath],
                                   IF res.status = 206 THEN res.contentRange.start ELSE 0,
                                   IF res.status = 206 THEN res.contentRange.end
                                   ELSE res.contentLength - 1)

\* C26, its case: two requests for different ranges of the same file, both
\* part of the way through their windows
C26_Witness ==
    /\ requests[1].op = "stream" /\ requests[2].op = "stream"
    /\ requests[1].path = requests[2].path
    /\ requests[1].range # requests[2].range
    /\ \A r \in {1, 2} : requests[r].sent # <<>> /\ requests[r].pos <= lastOffset(r)

\* C27: every 206 answer of GET /stream/:id has 0 <= start <= end <=
\* fileSize - 1 in its Content-Range and a Content-Length that is the number
\* of bytes of its body.
C27_RangeHeadersAgreeWithBody ==
    (res.op = "stream" /\ res.status = 206)
    => /\ 0 <= res.contentRange.start
       /\ res.contentRange.start <= res.contentRange.end
       /\ res.contentRange.end <= res.contentRange.size - 1
       /\ res.contentLength = Len(res.body)

\* C28: a POST /videos request leaves no file on disk without a record:
\* whatever it answers, every file it stored is the filePath of a stored
\* video afterwards.
C28_NoFileWithoutRecord ==
    [][res'.op = "upload" =>
          (\A s \in Sessions, part \in FileParts \cup {NoFile}, d \in VideoDatas, t \in Ticks :
              Upload(s, part, d, clock + t)
              => \A p \in (DOMAIN disk') \ (DOMAIN disk) :
                    \E i \in DOMAIN videos' : videos'[i].filePath = p)]_vars

\* C29: PUT /videos/:id leaves the record's id equal to its key and its
\* uploaderId and uploadDate as they were, whatever the body.
C29_PutKeepsIdentity ==
    [][res'.op = "update" =>
          (\A s \in Sessions, id \in VideoIds, b \in Patches :
              (id \in DOMAIN videos /\ UpdateVideo(s, id, b))
              => (/\ id \in DOMAIN videos'
                  /\ videos'[id].id = id
                  /\ videos'[id].uploaderId = videos[id].uploaderId
                  /\ videos'[id].uploadDate = videos[id].uploadDate))]_vars

\* C30: a deleted video never reappears, however a PUT or a views request
\* for its id interleaves with the DELETE: an id that was handed out and is
\* not in the store is not in it after any step; a PUT that got the video
\* and finds it deleted when it updates changes no record and has no video
\* to report, and answers with none; a views request that finds it deleted
\* answers 404.
C30_DeletedNeverReappears ==
    [][/\ \A id \in VideoIds :
            (id < nextVideoId /\ id \notin DOMAIN videos) => id \notin DOMAIN videos'
       /\ \A r \in Slots :
            /\ ( /\ requests[r].op = "put" /\ requests[r].pc = "got"
                 /\ requests[r].video # Undefined
                 /\ requests[r].id \notin DOMAIN videos
                 /\ PutUpdate(r) )
               => (videos' = videos /\ requests'[r].op = "put"
                                    /\ requests'[r].result = Undefined)
            /\ (PutEnd(r) /\ requests[r].result = Undefined)
               => res'.body = Undefined
            /\ (requests[r].op = "views" /\ requests[r].result = Undefined /\ ViewsEnd(r))
               => res'.status = 404]_vars

\* C30, its case: a PUT that had got the video answered after a DELETE of
\* the same id had removed it, with no video in its answer
C30_Witness ==
    /\ res.op = "update" /\ res.status = 200 /\ res.body = Undefined
    /\ nextVideoId > 1 /\ 1 \notin DOMAIN videos

\* the same letter, in either case
sameLetter(c, d) == c = d \/ {c, d} \in {{"a", "A"}, {"b", "B"}}

\* q occurs in str, ignoring case
containsIgnoringCase(str, q) ==
    \E k \in 0..(Len(str) - Len(q)) :
        \A i \in 1..Len(q) : sameLetter(str[k + i], q[i])

\* the title or the non-null description of video contains q, ignoring case
Matches(video, q) ==
    \/ containsIgnoringCase(chars(video.title), chars(q))
    \/ /\ video.description # Null
       /\ containsIgnoringCase(chars(video.description), chars(q))

\* C14: searchVideos(q) returns the videos whose title or non-null
\* description contains q ignoring case, each once, and nothing else; the
\* empty query returns every stored video.
C14_SearchExact ==
    res.op = "searchVideos"
    => /\ \A i \in DOMAIN videos :
             (\E k \in 1..Len(res.body.items) : res.body.items[k] = videos[i])
                <=> Matches(videos[i], res.query)
       /\ Len(res.body.items)
             = Cardinality({i \in DOMAIN videos : Matches(videos[i], res.query)})
       /\ res.query = "" => AllStoredVideos(res.body.items)

\* C14, its case: of two videos titled B, the query AB found the one whose
\* description is aB and left out the one that has no description
C14_Witness ==
    /\ res.op = "searchVideos" /\ res.query = "AB"
    /\ Cardinality(DOMAIN videos) = 2
    /\ \A i \in DOMAIN videos : videos[i].title = "B"
    /\ Len(res.body.items) = 1
    /\ res.body.items[1].description = "aB"

====
